---- MODULE Spec2Model ----
(***************************************************************************)
(* Model of publish-immutable-action's orchestrator, src/src/main.ts:      *)
(* run() and its helpers parseSemverTagFromRef, generateAttestation,       *)
(* publishAttestation and publishImmutableActionVersion, together with the *)
(* collaborators it calls (oci-container, ghcr-client, fs-helper, config,  *)
(* @actions/attest).  Strings that the code inspects (digests, tags) are   *)
(* sequences of one-character strings; byte buffers are sequences of       *)
(* naturals.                                                               *)
(***************************************************************************)
EXTENDS Integers, Sequences, FiniteSets, TLC

\* ------------------------------------------------------------------ bounds
\* Number of hex digits a modelled SHA-256 digest keeps.
HexLen == 2
\* Clock values new Date() can return.
MaxTime == 2

\* ------------------------------------------------------- strings and bytes
HexDigits == <<"0","1","2","3","4","5","6","7","8","9","a","b","c","d","e","f">>

Alphabet == HexDigits \o <<"s","h",":","-",".","v">>

\* The byte a character serializes to.
CharCode(c) == CHOOSE i \in 1..Len(Alphabet) : Alphabet[i] = c

RECURSIVE Pow16(_)
Pow16(n) == IF n = 0 THEN 1 ELSE 16 * Pow16(n - 1)

\* hash.digest('hex'): the fixed-width lowercase hex form of a hash value.
RECURSIVE HexOf(_, _)
HexOf(v, len) ==
  IF len = 0 THEN << >>
  ELSE HexOf(v \div 16, len - 1) \o <<HexDigits[(v % 16) + 1]>>

\* The hash of a byte sequence, HexLen hex digits wide.
\* (hash.update folds the bytes in from left to right; the fold is evaluated
\* in halves, the left half first, which keeps its evaluation shallow.)
RECURSIVE HashFrom(_, _)
HashFrom(h, bytes) ==
  IF bytes = << >> THEN h
  ELSE IF Len(bytes) = 1 THEN (h * 31 + bytes[1] + 7) % Pow16(HexLen)
  ELSE LET half == Len(bytes) \div 2
           left == HashFrom(h, SubSeq(bytes, 1, half))
       IN  IF left >= 0 THEN HashFrom(left, SubSeq(bytes, half + 1, Len(bytes)))
           ELSE 0

HashBytes(bytes) == HashFrom(5, bytes)

Sha256Prefix == <<"s","h","a","2","5","6",":">>

\* `sha256:${hex}` of a byte buffer.
Sha256OfBytes(bytes) == Sha256Prefix \o HexOf(HashBytes(bytes), HexLen)

StrBytes(s) == [i \in 1..Len(s) |-> CharCode(s[i])]

\* str.startsWith(prefix)
StartsWith(str, prefix) ==
  /\ Len(str) >= Len(prefix)
  /\ SubSeq(str, 1, Len(prefix)) = prefix

\* removePrefix(str, prefix)
removePrefix(str, prefix) ==
  IF StartsWith(str, prefix) THEN SubSeq(str, Len(prefix) + 1, Len(str)) ELSE str

\* String.prototype.replace(from, to) with a string pattern: the first
\* occurrence only.
RECURSIVE ReplaceFirst(_, _, _)
ReplaceFirst(str, from, to) ==
  IF str = << >> THEN << >>
  ELSE IF Head(str) = from THEN <<to>> \o Tail(str)
  ELSE <<Head(str)>> \o ReplaceFirst(Tail(str), from, to)

\* A digest that differs from d in its last hex digit: what a registry that
\* stored or reports something else answers.
OtherDigest(d) ==
  LET last == d[Len(d)]
  IN  SubSeq(d, 1, Len(d) - 1) \o <<IF last = "0" THEN "1" ELSE "0">>

\* ----------------------------------------------------- oci-container
\* Buffer.from('{}')
EmptyConfigBytes == <<123, 125>>

emptyConfigSha == Sha256OfBytes(EmptyConfigBytes)

Descriptor(mediaType, digest, size) ==
  [mediaType |-> mediaType, digest |-> digest, size |-> size]

EmptyConfigDescriptor == Descriptor("empty", emptyConfigSha, Len(EmptyConfigBytes))

NoManifest ==
  [kind |-> "none", config |-> EmptyConfigDescriptor, layers |-> << >>,
   manifests |-> << >>, subject |-> << >>, subjectSize |-> 0,
   version |-> << >>, commit |-> 0, created |-> 0]

createActionPackageManifest(tarFile, zipFile, sha, tag, created) ==
  [kind |-> "package", config |-> EmptyConfigDescriptor,
   layers |-> <<Descriptor("tar", tarFile.sha256, tarFile.size),
                Descriptor("zip", zipFile.sha256, zipFile.size)>>,
   manifests |-> << >>, subject |-> << >>, subjectSize |-> 0,
   version |-> tag, commit |-> sha, created |-> created]

createSigstoreAttestationManifest(bundleSize, bundleDigest, subjectSize, subjectDigest, created) ==
  [kind |-> "attestation", config |-> EmptyConfigDescriptor,
   layers |-> <<Descriptor("bundle", bundleDigest, bundleSize)>>,
   manifests |-> << >>, subject |-> subjectDigest, subjectSize |-> subjectSize,
   version |-> << >>, commit |-> 0, created |-> created]

createReferrerTagManifest(attestationDigest, attestationSize, created) ==
  [kind |-> "index", config |-> EmptyConfigDescriptor, layers |-> << >>,
   manifests |-> <<Descriptor("manifest", attestationDigest, attestationSize)>>,
   subject |-> << >>, subjectSize |-> 0,
   version |-> << >>, commit |-> 0, created |-> created]

KindCode(k) ==
  CASE k = "package" -> 1 [] k = "attestation" -> 2 [] k = "index" -> 3
    [] OTHER -> 0

RECURSIVE DescriptorsBytes(_)
DescriptorsBytes(ds) ==
  IF ds = << >> THEN << >>
  ELSE StrBytes(Head(ds).digest) \o <<Head(ds).size>> \o DescriptorsBytes(Tail(ds))

\* JSON.stringify(manifest) as bytes.
Serialize(m) ==
  <<KindCode(m.kind)>>
    \o (IF m.kind = "index" THEN << >> ELSE DescriptorsBytes(<<m.config>>))
    \o DescriptorsBytes(m.layers) \o DescriptorsBytes(m.manifests)
    \o StrBytes(m.subject) \o <<m.subjectSize>>
    \o StrBytes(m.version) \o <<m.commit, m.created>>

sha256Digest(m) == Sha256OfBytes(Serialize(m))

sizeInBytes(m) == Len(Serialize(m))

\* The digests of the blobs an image manifest's descriptors reference.
ReferencedBlobs(m) ==
  {m.config.digest} \cup {m.layers[i].digest : i \in 1..Len(m.layers)}

\* ------------------------------------------------------------------ semver
Digits == {"0","1","2","3","4","5","6","7","8","9"}

\* The parts of s between the dots.
RECURSIVE SplitDots(_, _)
SplitDots(s, cur) ==
  IF s = << >> THEN <<cur>>
  ELSE IF Head(s) = "." THEN <<cur>> \o SplitDots(Tail(s), << >>)
  ELSE SplitDots(Tail(s), Append(cur, Head(s)))

IsNumericIdentifier(part) ==
  /\ Len(part) >= 1
  /\ \A i \in 1..Len(part) : part[i] \in Digits
  /\ (Len(part) > 1 => part[1] # "0")

\* semver.parse(version) # null, for versions without prerelease or build
\* parts: an optional leading v, then major.minor.patch.
IsSemver(version) ==
  LET core == IF version # << >> /\ Head(version) = "v" THEN Tail(version) ELSE version
      parts == SplitDots(core, << >>)
  IN  /\ Len(parts) = 3
      /\ \A i \in 1..3 : IsNumericIdentifier(parts[i])

RefsTagsPrefix == <<"r","e","f","s","/","t","a","g","s","/">>

\* ref.replace(/^refs\/tags\//, '')
StripRefsTags(ref) == removePrefix(ref, RefsTagsPrefix)

\* rawTag.replace(/^v/, '')
StripLeadingV(rawTag) == removePrefix(rawTag, <<"v">>)

\* The refs a run is started with.
Refs ==
  { RefsTagsPrefix \o <<"v","1",".","2",".","3">>,
    RefsTagsPrefix \o <<"1",".","0",".","0">>,
    RefsTagsPrefix \o <<"v","v","1",".","2",".","3">>,
    RefsTagsPrefix \o <<"v","1",".","2">>,
    <<"r","e","f","s","/","h","e","a","d","s","/","v","1",".","2",".","3">> }

\* ------------------------------------------------------------------- state
VARIABLES
  pc,                     \* where run() stands
  options,                \* cfg.PublishActionOptions
  semverTag,              \* semverTag.raw
  archives,               \* { tarFile, zipFile } of fsHelper.createArchives
  disk,                   \* path -> contents of the archive files
  manifest,               \* the subject (package) manifest
  manifestDigest,         \* run()'s manifestDigest (D_subj)
  bundle,                 \* the attestation bundle bytes
  bundleDigest,
  attestationManifest,
  referrerIndexManifest,
  attestationSHA,         \* what the registry answered for the attestation manifest
  referrerIndexSHA,       \* what the registry answered for the referrer index
  publishedDigest,        \* what the registry answered for the subject manifest
  outputs,                \* core.setOutput: name -> value, << >> while unset
  failed,                 \* core.setFailed
  registry,               \* the registry's blobs and manifests
  upload,                 \* the ghcr-client call in flight
  calls,                  \* the collaborator calls made, in order
  previous                \* what an earlier run of the same workflow left behind

vars == <<pc, options, semverTag, archives, disk, manifest, manifestDigest,
          bundle, bundleDigest, attestationManifest, referrerIndexManifest,
          attestationSHA, referrerIndexSHA, publishedDigest, outputs, failed,
          registry, upload, calls, previous>>

OutputNames ==
  {"package-manifest-sha", "attestation-manifest-sha", "referrer-index-manifest-sha"}

Unset == << >>

Times == 1..MaxTime

Tokens == {"ghs_token"}

Commits == {7}

\* The archive contents fsHelper.createArchives can produce.
TarContents == {<<1, 2>>, <<3>>}
ZipContents == {<<4, 5, 6>>}

\* The bundles the signing collaborator can return.
Bundles == {<<8>>, <<9, 9>>}

FileMetadata(path, content) ==
  [path |-> path, sha256 |-> Sha256OfBytes(content), size |-> Len(content)]

NoFile == [path |-> "", sha256 |-> Unset, size |-> 0]

\* fsHelper.readFileContents(path)
readFileContents(path) == disk[path]

NoFiles == [d \in {} |-> << >>]

IdleUpload ==
  [active |-> FALSE, returned |-> FALSE, op |-> "none", stage |-> "none",
   token |-> "", manifest |-> NoManifest, files |-> NoFiles, tag |-> Unset,
   pending |-> {}, blobAttempts |-> NoFiles, pushAttempts |-> 0,
   result |-> Unset]

NotFailed == [called |-> FALSE, message |-> [text |-> "", expected |-> Unset, got |-> Unset]]

\* No earlier run: this is the first run of the workflow.
NoPrevious ==
  [run |-> 1, clock |-> 1,
   options |-> [ref |-> Unset, sha |-> 0, isEnterprise |-> FALSE, token |-> ""],
   tar |-> << >>, zip |-> << >>,
   subject |-> Unset, attestation |-> Unset, index |-> Unset, tag |-> Unset]

Init ==
  /\ pc = "resolve"
  /\ options = [ref |-> Unset, sha |-> 0, isEnterprise |-> FALSE, token |-> ""]
  /\ semverTag = Unset
  /\ archives = [tarFile |-> NoFile, zipFile |-> NoFile]
  /\ disk = [p \in {"archive.tar.gz", "archive.zip"} |-> << >>]
  /\ manifest = NoManifest
  /\ manifestDigest = Unset
  /\ bundle = << >>
  /\ bundleDigest = Unset
  /\ attestationManifest = NoManifest
  /\ referrerIndexManifest = NoManifest
  /\ attestationSHA = Unset
  /\ referrerIndexSHA = Unset
  /\ publishedDigest = Unset
  /\ outputs = [n \in OutputNames |-> Unset]
  /\ failed = NotFailed
  /\ registry = [blobs |-> {}, manifests |-> << >>]
  /\ upload = IdleUpload
  /\ calls = << >>
  /\ previous = NoPrevious

\* ------------------------------------------------------------ error paths
ErrorMessage(text) == [text |-> text, expected |-> Unset, got |-> Unset]

\* What a failing collaborator can throw: an Error, or (the catch variable
\* is of type unknown) a value that is not an instance of Error.
Throwables(text) ==
  { [isError |-> TRUE, message |-> ErrorMessage(text)],
    [isError |-> FALSE, message |-> ErrorMessage(text)] }

\* new Error(message)
NewError(message) == [isError |-> TRUE, message |-> message]

\* run()'s catch block: setFailed only for an instance of Error.
Catch(error) ==
  /\ failed' = IF error.isError
               THEN [called |-> TRUE, message |-> error.message]
               ELSE failed
  /\ pc' = "done"

\* core.setOutput(name, value)
setOutput(outs, name, value) == [outs EXCEPT ![name] = value]

\* Map.prototype.set(key, value)
MapSet(f, k, v) == [x \in DOMAIN f \cup {k} |-> IF x = k THEN v ELSE f[x]]

runLocals == <<options, semverTag, archives, disk, manifest, manifestDigest,
               bundle, bundleDigest, attestationManifest, referrerIndexManifest>>

results == <<attestationSHA, referrerIndexSHA, publishedDigest>>

\* ------------------------------------------------------------------- run()
\* cfg.resolvePublishActionOptions()
ResolveOptions ==
  /\ pc = "resolve"
  /\ \/ \E ref \in Refs, sha \in Commits, ent \in BOOLEAN, tok \in Tokens :
          /\ options' = [ref |-> ref, sha |-> sha, isEnterprise |-> ent, token |-> tok]
          /\ previous.run > 1 => options' = previous.options
          /\ pc' = "parse"
          /\ UNCHANGED failed
     \/ \E e \in Throwables("resolvePublishActionOptions") :
          /\ Catch(e)
          /\ UNCHANGED options
  /\ UNCHANGED <<semverTag, archives, disk, manifest, manifestDigest, bundle,
                 bundleDigest, attestationManifest, referrerIndexManifest,
                 results, outputs, registry, upload, calls>>
  /\ UNCHANGED previous

\* parseSemverTagFromRef that does not test what semver.parse returned.
parseSemverTagFromRef_NoSemverCheck(opts) ==
  LET ref == opts.ref
      rawTag == StripRefsTags(ref)
      version == StripLeadingV(rawTag)
  IN  IF ~StartsWith(ref, RefsTagsPrefix)
      THEN [ok |-> FALSE, raw |-> Unset,
            error |-> NewError(ErrorMessage("is not a valid tag reference"))]
      ELSE [ok |-> TRUE, raw |-> version, error |-> NewError(ErrorMessage(""))]

\* parseSemverTagFromRef(opts): the SemVer's raw string, or the Error thrown.
parseSemverTagFromRef(opts) ==
  LET ref == opts.ref
      rawTag == StripRefsTags(ref)
      version == StripLeadingV(rawTag)
  IN  IF ~StartsWith(ref, RefsTagsPrefix)
      THEN [ok |-> FALSE, raw |-> Unset,
            error |-> NewError(ErrorMessage("is not a valid tag reference"))]
      ELSE IF ~IsSemver(version)
      THEN [ok |-> FALSE, raw |-> Unset,
            error |-> NewError(ErrorMessage("is not a valid semantic version tag"))]
      ELSE [ok |-> TRUE, raw |-> version, error |-> NewError(ErrorMessage(""))]

ParseSemverTag ==
  /\ pc = "parse"
  /\ LET r == parseSemverTagFromRef(options)
     IN  IF r.ok
         THEN /\ semverTag' = r.raw
              /\ pc' = "checkout"
              /\ UNCHANGED failed
         ELSE /\ Catch(r.error)
              /\ UNCHANGED semverTag
  /\ UNCHANGED <<options, archives, disk, manifest, manifestDigest, bundle,
                 bundleDigest, attestationManifest, referrerIndexManifest,
                 results, outputs, registry, upload, calls>>
  /\ UNCHANGED previous

\* fsHelper.ensureTagAndRefCheckedOut(ref, sha, workspaceDir)
EnsureCheckedOut ==
  /\ pc = "checkout"
  /\ \/ /\ pc' = "stage"
        /\ calls' = Append(calls, [op |-> "ensureTagAndRefCheckedOut", token |-> "",
                                   tag |-> Unset, subject |-> Unset])
        /\ UNCHANGED failed
     \/ \E e \in Throwables("ensureTagAndRefCheckedOut") :
          /\ Catch(e)
          /\ UNCHANGED calls
  /\ UNCHANGED <<runLocals, results, outputs, registry, upload>>
  /\ UNCHANGED previous

\* createTempDir, stageActionFiles, createArchives
StageAndArchive ==
  /\ pc = "stage"
  /\ \/ \E tar \in TarContents, zip \in ZipContents :
          /\ previous.run > 1 => (tar = previous.tar /\ zip = previous.zip)
          /\ disk' = [disk EXCEPT !["archive.tar.gz"] = tar, !["archive.zip"] = zip]
          /\ archives' = [tarFile |-> FileMetadata("archive.tar.gz", tar),
                          zipFile |-> FileMetadata("archive.zip", zip)]
          /\ calls' = Append(calls, [op |-> "createArchives", token |-> "",
                                     tag |-> Unset, subject |-> Unset])
          /\ pc' = "manifest"
          /\ UNCHANGED failed
     \/ \E e \in Throwables("createArchives") :
          /\ Catch(e)
          /\ UNCHANGED <<disk, archives, calls>>
  /\ UNCHANGED <<options, semverTag, manifest, manifestDigest, bundle,
                 bundleDigest, attestationManifest, referrerIndexManifest,
                 results, outputs, registry, upload>>
  /\ UNCHANGED previous

\* CreateManifest that takes the attestation branch on an enterprise server too.
CreateManifest_AlwaysAttest ==
  /\ pc = "manifest"
  /\ \E now \in {t \in Times : t >= previous.clock} :
       LET m == createActionPackageManifest(archives.tarFile, archives.zipFile,
                                            options.sha, semverTag, now)
       IN  /\ manifest' = m
           /\ manifestDigest' = sha256Digest(m)
  /\ pc' = "attest"
  /\ UNCHANGED <<options, semverTag, archives, disk, bundle, bundleDigest,
                 attestationManifest, referrerIndexManifest, results, outputs,
                 failed, registry, upload, calls>>
  /\ UNCHANGED previous

\* CreateManifest that never takes the attestation branch.
CreateManifest_SkipAttest ==
  /\ pc = "manifest"
  /\ \E now \in {t \in Times : t >= previous.clock} :
       LET m == createActionPackageManifest(archives.tarFile, archives.zipFile,
                                            options.sha, semverTag, now)
       IN  /\ manifest' = m
           /\ manifestDigest' = sha256Digest(m)
  /\ pc' = "publish"
  /\ UNCHANGED <<options, semverTag, archives, disk, bundle, bundleDigest,
                 attestationManifest, referrerIndexManifest, results, outputs,
                 failed, registry, upload, calls>>
  /\ UNCHANGED previous

\* The package manifest and its digest; then the attestation branch unless
\* on an enterprise server.
CreateManifest ==
  /\ pc = "manifest"
  /\ \E now \in {t \in Times : t >= previous.clock} :
       LET m == createActionPackageManifest(archives.tarFile, archives.zipFile,
                                            options.sha, semverTag, now)
       IN  /\ manifest' = m
           /\ manifestDigest' = sha256Digest(m)
  /\ pc' = IF ~options.isEnterprise THEN "attest" ELSE "publish"
  /\ UNCHANGED <<options, semverTag, archives, disk, bundle, bundleDigest,
                 attestationManifest, referrerIndexManifest, results, outputs,
                 failed, registry, upload, calls>>
  /\ UNCHANGED previous

Call(op, token, tag, subject) ==
  [op |-> op, token |-> token, tag |-> tag, subject |-> subject]

\* GenerateAttestation that hands the digest over with its sha256: prefix.
GenerateAttestation_KeepsPrefix ==
  /\ pc = "attest"
  /\ calls' = Append(calls, Call("attestProvenance", options.token,
                                 semverTag, manifestDigest))
  /\ \/ \E b \in Bundles :
          /\ bundle' = b
          /\ bundleDigest' = Sha256OfBytes(b)
          /\ pc' = "buildAttestation"
          /\ UNCHANGED failed
     \/ \E e \in Throwables("attestProvenance") :
          /\ Catch(e)
          /\ UNCHANGED <<bundle, bundleDigest>>
  /\ UNCHANGED <<options, semverTag, archives, disk, manifest, manifestDigest,
                 attestationManifest, referrerIndexManifest, results, outputs,
                 registry, upload>>
  /\ UNCHANGED previous

\* generateAttestation(manifestDigest, semverTag, options): the signing
\* collaborator is asked for a bundle over the subject digest.
GenerateAttestation ==
  /\ pc = "attest"
  /\ LET subjectDigest == removePrefix(manifestDigest, Sha256Prefix)
     IN  calls' = Append(calls, Call("attestProvenance", options.token,
                                     semverTag, subjectDigest))
  /\ \/ \E b \in Bundles :
          /\ bundle' = b
          /\ bundleDigest' = Sha256OfBytes(b)
          /\ pc' = "buildAttestation"
          /\ UNCHANGED failed
     \/ \E e \in Throwables("attestProvenance") :
          /\ Catch(e)
          /\ UNCHANGED <<bundle, bundleDigest>>
  /\ UNCHANGED <<options, semverTag, archives, disk, manifest, manifestDigest,
                 attestationManifest, referrerIndexManifest, results, outputs,
                 registry, upload>>
  /\ UNCHANGED previous

\* ------------------------------------------------------------- ghcr-client
\* Attempts a registry request gets before a transient failure is fatal.
MaxAttempts == 3

\* What the registry can report as the digest of a manifest it was sent.
RegistryAnswers(m) == {sha256Digest(m), OtherDigest(sha256Digest(m))}

\* ghcr.uploadOCIImageManifest(token, registry, repository, manifest, blobs, tag)
\* is entered: the blobs the manifest references are to be uploaded first.
uploadOCIImageManifest(stage, token, m, files, tag) ==
  [active |-> TRUE, returned |-> FALSE, op |-> "image", stage |-> stage,
   token |-> token, manifest |-> m, files |-> files, tag |-> tag,
   pending |-> ReferencedBlobs(m),
   blobAttempts |-> [d \in ReferencedBlobs(m) |-> 0],
   pushAttempts |-> 0, result |-> Unset]

\* ghcr.uploadOCIIndexManifest(token, registry, repository, manifest, tag)
uploadOCIIndexManifest(stage, token, m, tag) ==
  [active |-> TRUE, returned |-> FALSE, op |-> "index", stage |-> stage,
   token |-> token, manifest |-> m, files |-> NoFiles, tag |-> tag,
   pending |-> {}, blobAttempts |-> NoFiles,
   pushAttempts |-> 0, result |-> Unset]

\* AttestationFiles without the empty config blob.
AttestationFiles_NoConfig(bundleBytes, bundleSha) ==
  MapSet(NoFiles, bundleSha, bundleBytes)

\* The files publishAttestation hands to the upload.
AttestationFiles(bundleBytes, bundleSha) ==
  MapSet(MapSet(NoFiles, emptyConfigSha, EmptyConfigBytes), bundleSha, bundleBytes)

\* PackageFiles without the empty config blob.
PackageFiles_NoConfig(zipFile, tarFile) ==
  MapSet(MapSet(NoFiles, zipFile.sha256, readFileContents(zipFile.path)),
         tarFile.sha256, readFileContents(tarFile.path))

\* The files publishImmutableActionVersion hands to the upload.
PackageFiles(zipFile, tarFile) ==
  MapSet(MapSet(MapSet(NoFiles, zipFile.sha256, readFileContents(zipFile.path)),
                tarFile.sha256, readFileContents(tarFile.path)),
         emptyConfigSha, EmptyConfigBytes)

\* ReferrerTag with the colon left in place.
ReferrerTag_Unreplaced(subjectManifestDigest) == subjectManifestDigest

\* The referrer index is tagged with the subject's digest, sha256-<digest>.
ReferrerTag(subjectManifestDigest) == ReplaceFirst(subjectManifestDigest, ":", "-")

\* BuildAndPublishAttestation whose referrer index points at the subject
\* manifest instead of the attestation manifest.
BuildAndPublishAttestation_IndexOfSubject ==
  /\ pc = "buildAttestation"
  /\ \E attestationCreated \in Times :
       /\ attestationCreated >= manifest.created
       /\ LET am == createSigstoreAttestationManifest(
                      Len(bundle), bundleDigest, sizeInBytes(manifest),
                      manifestDigest, attestationCreated)
              rim == createReferrerTagManifest(
                       sha256Digest(manifest), sizeInBytes(manifest),
                       attestationCreated)
          IN  /\ attestationManifest' = am
              /\ referrerIndexManifest' = rim
              /\ upload' = uploadOCIImageManifest(
                             "attestation", options.token, am,
                             AttestationFiles(bundle, bundleDigest), Unset)
  /\ calls' = Append(calls, Call("uploadOCIImageManifest", options.token, Unset,
                                 sha256Digest(manifest)))
  /\ pc' = "attestationUpload"
  /\ UNCHANGED <<options, semverTag, archives, disk, manifest, manifestDigest,
                 bundle, bundleDigest, results, outputs, failed, registry>>
  /\ UNCHANGED previous

\* Lines 64-86 of run() and publishAttestation up to its first upload.
BuildAndPublishAttestation ==
  /\ pc = "buildAttestation"
  /\ \E attestationCreated \in Times :
       /\ attestationCreated >= manifest.created
       /\ LET am == createSigstoreAttestationManifest(
                      Len(bundle), bundleDigest, sizeInBytes(manifest),
                      manifestDigest, attestationCreated)
              rim == createReferrerTagManifest(
                       sha256Digest(am), sizeInBytes(am), attestationCreated)
          IN  /\ attestationManifest' = am
              /\ referrerIndexManifest' = rim
              /\ upload' = uploadOCIImageManifest(
                             "attestation", options.token, am,
                             AttestationFiles(bundle, bundleDigest), Unset)
  /\ calls' = Append(calls, Call("uploadOCIImageManifest", options.token, Unset,
                                 sha256Digest(manifest)))
  /\ pc' = "attestationUpload"
  /\ UNCHANGED <<options, semverTag, archives, disk, manifest, manifestDigest,
                 bundle, bundleDigest, results, outputs, failed, registry>>
  /\ UNCHANGED previous

\* One blob of the upload in flight: skipped when the registry has it,
\* uploaded otherwise; a transient failure is retried, a permanent one and
\* the last transient one are thrown.
UploadBlob(d) ==
  /\ upload.active /\ ~upload.returned
  /\ d \in upload.pending
  /\ \/ IF d \in DOMAIN upload.files
        THEN /\ registry' =
                  IF \E b \in registry.blobs : b.digest = d
                  THEN registry
                  ELSE [registry EXCEPT !.blobs =
                          @ \cup {[digest |-> d, content |-> upload.files[d]]}]
             /\ upload' = [upload EXCEPT !.pending = @ \ {d}]
             /\ UNCHANGED <<pc, failed>>
        ELSE /\ Catch(NewError(ErrorMessage("blob not found")))
             /\ upload' = IdleUpload
             /\ UNCHANGED registry
     \/ /\ upload.blobAttempts[d] + 1 < MaxAttempts
        /\ upload' = [upload EXCEPT !.blobAttempts[d] = @ + 1]
        /\ UNCHANGED <<pc, failed, registry>>
     \/ /\ upload.blobAttempts[d] + 1 >= MaxAttempts
        /\ \E e \in Throwables("blob upload failed after retries") :
             Catch(e)
        /\ upload' = IdleUpload
        /\ UNCHANGED registry
     \/ /\ \E e \in Throwables("blob upload rejected") :
             Catch(e)
        /\ upload' = IdleUpload
        /\ UNCHANGED registry
  /\ UNCHANGED <<runLocals, results, outputs, calls>>
  /\ UNCHANGED previous

\* The manifest of the upload in flight is pushed once no blob is pending;
\* the registry's digest is returned as it came.
PushManifest ==
  /\ upload.active /\ ~upload.returned
  /\ upload.pending = {}
  /\ \/ \E answer \in RegistryAnswers(upload.manifest) :
          /\ registry' = [registry EXCEPT !.manifests =
                            Append(@, [op |-> upload.op, stage |-> upload.stage,
                                       digest |-> answer,
                                       tag |-> upload.tag,
                                       manifest |-> upload.manifest])]
          /\ upload' = [upload EXCEPT !.returned = TRUE, !.result = answer]
          /\ UNCHANGED <<pc, failed>>
     \/ /\ upload.pushAttempts + 1 < MaxAttempts
        /\ upload' = [upload EXCEPT !.pushAttempts = @ + 1]
        /\ UNCHANGED <<pc, failed, registry>>
     \/ /\ upload.pushAttempts + 1 >= MaxAttempts
        /\ \E e \in Throwables("manifest push failed after retries") :
             Catch(e)
        /\ upload' = IdleUpload
        /\ UNCHANGED registry
     \/ /\ \E e \in Throwables("manifest push rejected") :
             Catch(e)
        /\ upload' = IdleUpload
        /\ UNCHANGED registry
  /\ UNCHANGED <<runLocals, results, outputs, calls>>
  /\ UNCHANGED previous

\* ------------------------------------------------------ run(), continued
\* PublishReferrerIndex that does not await the attestation manifest upload.
PublishReferrerIndex_NoAwait ==
  /\ pc = "attestationUpload"
  /\ upload.active
  /\ attestationSHA' = upload.result
  /\ LET subjectManifestDigest == sha256Digest(manifest)
         referrerTag == ReferrerTag(subjectManifestDigest)
     IN  /\ upload' = uploadOCIIndexManifest("index", options.token,
                                             referrerIndexManifest, referrerTag)
         /\ calls' = Append(calls, Call("uploadOCIIndexManifest", options.token,
                                        referrerTag, subjectManifestDigest))
  /\ pc' = "indexUpload"
  /\ UNCHANGED <<runLocals, referrerIndexSHA, publishedDigest, outputs, failed,
                 registry>>
  /\ UNCHANGED previous

\* publishAttestation after the attestation manifest upload returned: the
\* referrer index is uploaded under the tag derived from the subject digest.
PublishReferrerIndex ==
  /\ pc = "attestationUpload"
  /\ upload.active /\ upload.returned
  /\ attestationSHA' = upload.result
  /\ LET subjectManifestDigest == sha256Digest(manifest)
         referrerTag == ReferrerTag(subjectManifestDigest)
     IN  /\ upload' = uploadOCIIndexManifest("index", options.token,
                                             referrerIndexManifest, referrerTag)
         /\ calls' = Append(calls, Call("uploadOCIIndexManifest", options.token,
                                        referrerTag, subjectManifestDigest))
  /\ pc' = "indexUpload"
  /\ UNCHANGED <<runLocals, referrerIndexSHA, publishedDigest, outputs, failed,
                 registry>>
  /\ UNCHANGED previous

\* publishAttestation returns; run() sets the attestation outputs.
SetAttestationOutputs ==
  /\ pc = "indexUpload"
  /\ upload.active /\ upload.returned
  /\ referrerIndexSHA' = upload.result
  /\ outputs' =
       LET o1 == IF attestationSHA # Unset
                 THEN setOutput(outputs, "attestation-manifest-sha", attestationSHA)
                 ELSE outputs
       IN  IF upload.result # Unset
           THEN setOutput(o1, "referrer-index-manifest-sha", upload.result)
           ELSE o1
  /\ upload' = IdleUpload
  /\ pc' = "publish"
  /\ UNCHANGED <<runLocals, attestationSHA, publishedDigest, failed, registry,
                 calls>>
  /\ UNCHANGED previous

\* PublishImmutableActionVersion that passes no token.
PublishImmutableActionVersion_NoToken ==
  /\ pc = "publish"
  /\ upload' = uploadOCIImageManifest(
                 "subject", "", manifest,
                 PackageFiles(archives.zipFile, archives.tarFile), semverTag)
  /\ calls' = Append(calls, Call("uploadOCIImageManifest", "",
                                 semverTag, sha256Digest(manifest)))
  /\ pc' = "subjectUpload"
  /\ UNCHANGED <<runLocals, results, outputs, failed, registry>>
  /\ UNCHANGED previous

\* publishImmutableActionVersion(options, semverTag.raw, zipFile, tarFile, manifest)
PublishImmutableActionVersion ==
  /\ pc = "publish"
  /\ upload' = uploadOCIImageManifest(
                 "subject", options.token, manifest,
                 PackageFiles(archives.zipFile, archives.tarFile), semverTag)
  /\ calls' = Append(calls, Call("uploadOCIImageManifest", options.token,
                                 semverTag, sha256Digest(manifest)))
  /\ pc' = "subjectUpload"
  /\ UNCHANGED <<runLocals, results, outputs, failed, registry>>
  /\ UNCHANGED previous

\* VerifyPublished that sets the output without comparing the digests.
VerifyPublished_NoCheck ==
  /\ pc = "subjectUpload"
  /\ upload.active /\ upload.returned
  /\ publishedDigest' = upload.result
  /\ outputs' = setOutput(outputs, "package-manifest-sha", upload.result)
  /\ pc' = "done"
  /\ upload' = IdleUpload
  /\ UNCHANGED <<runLocals, attestationSHA, referrerIndexSHA, registry, calls,
                 failed>>
  /\ UNCHANGED previous

\* VerifyPublished with the comparison inverted.
VerifyPublished_Inverted ==
  /\ pc = "subjectUpload"
  /\ upload.active /\ upload.returned
  /\ publishedDigest' = upload.result
  /\ IF manifestDigest = upload.result
     THEN /\ Catch(NewError([text |-> "Unexpected digest returned for manifest",
                             expected |-> manifestDigest,
                             got |-> upload.result]))
          /\ UNCHANGED outputs
     ELSE /\ outputs' = setOutput(outputs, "package-manifest-sha", upload.result)
          /\ pc' = "done"
          /\ UNCHANGED failed
  /\ upload' = IdleUpload
  /\ UNCHANGED <<runLocals, attestationSHA, referrerIndexSHA, registry, calls>>
  /\ UNCHANGED previous

\* VerifyPublished that withdraws the outputs when the digests differ.
VerifyPublished_Rollback ==
  /\ pc = "subjectUpload"
  /\ upload.active /\ upload.returned
  /\ publishedDigest' = upload.result
  /\ IF manifestDigest # upload.result
     THEN /\ Catch(NewError([text |-> "Unexpected digest returned for manifest",
                             expected |-> manifestDigest,
                             got |-> upload.result]))
          /\ outputs' = [n \in OutputNames |-> Unset]
     ELSE /\ outputs' = setOutput(outputs, "package-manifest-sha", upload.result)
          /\ pc' = "done"
          /\ UNCHANGED failed
  /\ upload' = IdleUpload
  /\ UNCHANGED <<runLocals, attestationSHA, referrerIndexSHA, registry, calls>>
  /\ UNCHANGED previous

\* The digest the registry returned is compared with manifestDigest; the
\* output is set only when they agree.
VerifyPublished ==
  /\ pc = "subjectUpload"
  /\ upload.active /\ upload.returned
  /\ publishedDigest' = upload.result
  /\ IF manifestDigest # upload.result
     THEN /\ Catch(NewError([text |-> "Unexpected digest returned for manifest",
                             expected |-> manifestDigest,
                             got |-> upload.result]))
          /\ UNCHANGED outputs
     ELSE /\ outputs' = setOutput(outputs, "package-manifest-sha", upload.result)
          /\ pc' = "done"
          /\ UNCHANGED failed
  /\ upload' = IdleUpload
  /\ UNCHANGED <<runLocals, attestationSHA, referrerIndexSHA, registry, calls>>
  /\ UNCHANGED previous

Next ==
  \/ ResolveOptions
  \/ ParseSemverTag
  \/ EnsureCheckedOut
  \/ StageAndArchive
  \/ CreateManifest
  \/ GenerateAttestation
  \/ BuildAndPublishAttestation
  \/ \E d \in upload.pending : UploadBlob(d)
  \/ PushManifest
  \/ PublishReferrerIndex
  \/ SetAttestationOutputs
  \/ PublishImmutableActionVersion
  \/ VerifyPublished

Spec == Init /\ [][Next]_vars

\* The workflow is run again with the same inputs after a run that came
\* through the attestation branch and failed at the subject stage: a new
\* run() starts, at a later time, against the registry as the first left it.
Rerun ==
  /\ pc = "done"
  /\ previous.run = 1
  /\ referrerIndexSHA # Unset
  /\ outputs["package-manifest-sha"] = Unset
  /\ attestationManifest.created + 1 \in Times
  /\ previous' = [run |-> 2, clock |-> attestationManifest.created + 1,
                  options |-> options,
                  tar |-> disk["archive.tar.gz"], zip |-> disk["archive.zip"],
                  subject |-> manifestDigest,
                  attestation |-> sha256Digest(attestationManifest),
                  index |-> sha256Digest(referrerIndexManifest),
                  tag |-> ReferrerTag(manifestDigest)]
  /\ pc' = "resolve"
  /\ options' = [ref |-> Unset, sha |-> 0, isEnterprise |-> FALSE, token |-> ""]
  /\ semverTag' = Unset
  /\ archives' = [tarFile |-> NoFile, zipFile |-> NoFile]
  /\ manifest' = NoManifest
  /\ manifestDigest' = Unset
  /\ bundle' = << >>
  /\ bundleDigest' = Unset
  /\ attestationManifest' = NoManifest
  /\ referrerIndexManifest' = NoManifest
  /\ attestationSHA' = Unset
  /\ referrerIndexSHA' = Unset
  /\ publishedDigest' = Unset
  /\ outputs' = [n \in OutputNames |-> Unset]
  /\ failed' = NotFailed
  /\ upload' = IdleUpload
  /\ calls' = << >>
  /\ UNCHANGED <<disk, registry>>

RetryNext ==
  \/ Next
  \/ Rerun

RetrySpec == Init /\ [][RetryNext]_vars

\* Every step of a run is eventually taken: the run is a single flow of
\* awaited calls, each of which returns or throws.
FairSpec == Spec /\ WF_vars(Next)

\* ---------------------------------------------------------------- claims
Published == outputs["package-manifest-sha"] # Unset /\ ~failed.called

Failed == failed.called /\ outputs["package-manifest-sha"] = Unset

Pushes == {registry.manifests[i] : i \in 1..Len(registry.manifests)}

PushesOf(stage) == {e \in Pushes : e.stage = stage}

Called(op) == \E i \in 1..Len(calls) : calls[i].op = op

SubjectUploadCalled ==
  \E i \in 1..Len(calls) :
    calls[i].op = "uploadOCIImageManifest" /\ calls[i].tag # Unset

\* C1: when the registry answers the subject manifest push with a digest
\* other than the locally computed one, 'package-manifest-sha' is never set,
\* and the run ends with setFailed called with a message that names the
\* expected and the returned digest.
C1_SubjectMismatchFails ==
  \A e \in PushesOf("subject") :
    e.digest # manifestDigest =>
      /\ outputs["package-manifest-sha"] = Unset
      /\ pc \in {"subjectUpload", "done"}
      /\ pc = "done" =>
           /\ failed.called
           /\ failed.message.text = "Unexpected digest returned for manifest"
           /\ failed.message.expected = manifestDigest
           /\ failed.message.got = e.digest

C1_Witness ==
  /\ pc = "done"
  /\ \E e \in PushesOf("subject") : e.digest # manifestDigest
  /\ Failed

\* C2 (as claimed): when the registry answers the attestation manifest push
\* or the referrer index push with a digest other than the locally computed
\* one, the corresponding output is not set, the subject manifest upload is
\* not called and the run does not end Published.
C2_AttestationMismatchFails ==
  /\ \A e \in PushesOf("attestation") :
       e.digest # sha256Digest(attestationManifest) =>
         /\ outputs["attestation-manifest-sha"] = Unset
         /\ ~SubjectUploadCalled
         /\ ~Published
  /\ \A e \in PushesOf("index") :
       e.digest # sha256Digest(referrerIndexManifest) =>
         /\ outputs["referrer-index-manifest-sha"] = Unset
         /\ ~SubjectUploadCalled
         /\ ~Published

\* C3: the referrer index upload is started only after the attestation
\* manifest upload has returned: whenever the index upload was called, is in
\* flight or was pushed, the attestation manifest was pushed before and its
\* digest was returned; a run whose attestation manifest upload threw never
\* calls the index upload.
C3_IndexAfterAttestation ==
  /\ (Called("uploadOCIIndexManifest") \/ upload.op = "index"
        \/ PushesOf("index") # {}) =>
       /\ attestationSHA # Unset
       /\ \E e \in PushesOf("attestation") :
            e.manifest = attestationManifest /\ e.digest = attestationSHA
  /\ \A i \in 1..Len(registry.manifests) :
       registry.manifests[i].op = "index" =>
         \E j \in 1..(i - 1) : registry.manifests[j].stage = "attestation"

C3_Witness ==
  /\ PushesOf("index") # {}
  /\ PushesOf("attestation") # {}

\* C4: while an image manifest upload is in flight every blob its config and
\* layer descriptors reference is in the files handed to the upload, and
\* every image manifest the registry was sent finds all the blobs it
\* references in the registry (no blob is pending when it is pushed).
C4_BlobsBeforeManifest ==
  /\ (upload.active /\ upload.op = "image") =>
       /\ ReferencedBlobs(upload.manifest) \subseteq DOMAIN upload.files
       /\ (upload.returned => upload.pending = {})
       /\ \A d \in ReferencedBlobs(upload.manifest) \ upload.pending :
            \E b \in registry.blobs : b.digest = d /\ b.content = upload.files[d]
  /\ \A e \in Pushes :
       e.op = "image" =>
         \A d \in ReferencedBlobs(e.manifest) :
           \E b \in registry.blobs : b.digest = d

C4_Witness ==
  /\ \E e \in PushesOf("subject") : Cardinality(ReferencedBlobs(e.manifest)) = 3
  /\ \E e \in PushesOf("attestation") : Cardinality(ReferencedBlobs(e.manifest)) = 2

\* C5 (as claimed): a run that has ended is either Published or Failed.
C5_PublishedOrFailed ==
  pc = "done" => (Published \/ Failed)

\* C6 (as claimed): a non-enterprise run that ended in the attestation
\* branch (the signing collaborator was called and publishAttestation did
\* not return) is Failed, never called the subject manifest upload and set
\* no 'package-manifest-sha'.
C6_AttestationFailureFailsRun ==
  (pc = "done" /\ Called("attestProvenance") /\ referrerIndexSHA = Unset) =>
    /\ Failed
    /\ ~SubjectUploadCalled
    /\ PushesOf("subject") = {}

\* C7: on an enterprise server the signing collaborator is not called, no
\* attestation manifest and no referrer index is uploaded and neither of
\* their outputs is set, while a Published run has uploaded and verified the
\* subject manifest; a Published run elsewhere has set all three outputs.
C7_EnterpriseSkipsAttestation ==
  /\ options.isEnterprise =>
       /\ ~Called("attestProvenance")
       /\ ~Called("uploadOCIIndexManifest")
       /\ PushesOf("attestation") = {} /\ PushesOf("index") = {}
       /\ outputs["attestation-manifest-sha"] = Unset
       /\ outputs["referrer-index-manifest-sha"] = Unset
       /\ pc \notin {"attest", "buildAttestation", "attestationUpload", "indexUpload"}
       /\ Published =>
            /\ SubjectUploadCalled
            /\ \E e \in PushesOf("subject") :
                 e.manifest = manifest /\ e.digest = manifestDigest
  /\ (~options.isEnterprise /\ Published) =>
       \A n \in OutputNames : outputs[n] # Unset

C7_Witness ==
  /\ options.isEnterprise
  /\ Published
  /\ pc = "done"

\* C8: the tag the referrer index is pushed under is "sha256-" followed by
\* the hex digits of the subject manifest's digest; it holds no colon and is
\* not the version tag.
C8_ReferrerTag ==
  \A i \in 1..Len(calls) :
    calls[i].op = "uploadOCIIndexManifest" =>
      /\ StartsWith(manifestDigest, Sha256Prefix)
      /\ calls[i].tag = <<"s","h","a","2","5","6","-">>
                          \o SubSeq(manifestDigest, 8, Len(manifestDigest))
      /\ \A k \in 1..Len(calls[i].tag) : calls[i].tag[k] # ":"
      /\ calls[i].tag # semverTag
      /\ \A e \in PushesOf("index") : e.tag = calls[i].tag

C8_Witness ==
  /\ PushesOf("index") # {}
  /\ Called("uploadOCIIndexManifest")

\* C9: a run whose subject manifest push was answered with the locally
\* computed digest ends Published, and 'package-manifest-sha', once set, is
\* the digest of the subject manifest that was uploaded.
C9_EchoPublishes ==
  /\ (pc = "done" /\ \E e \in PushesOf("subject") : e.digest = sha256Digest(e.manifest))
       => Published
  /\ outputs["package-manifest-sha"] # Unset =>
       /\ outputs["package-manifest-sha"] = manifestDigest
       /\ \E e \in PushesOf("subject") :
            /\ e.manifest = manifest
            /\ outputs["package-manifest-sha"] = sha256Digest(e.manifest)

C9_Witness ==
  /\ pc = "done"
  /\ Published
  /\ Cardinality(Pushes) = 3
  /\ \A e \in Pushes : e.digest = sha256Digest(e.manifest)

\* C10 (as claimed): no request is attempted more than MaxAttempts times,
\* and a run that called a registry upload and has ended, whether an upload
\* gave up after its last attempt or not, is Published or Failed.
C10_BoundedRetryThenTerminal ==
  /\ upload.pushAttempts < MaxAttempts
  /\ \A d \in DOMAIN upload.blobAttempts : upload.blobAttempts[d] < MaxAttempts
  /\ (pc = "done" /\ (Called("uploadOCIImageManifest") \/ Called("uploadOCIIndexManifest")))
       => (Published \/ Failed)

\* The blobs the registry holds under a digest.
BlobsOf(d) == {b \in registry.blobs : b.digest = d}

\* "sha256-" followed by the hex digits of a digest.
DashTag(digest) == <<"s","h","a","2","5","6","-">> \o SubSeq(digest, 8, Len(digest))

\* C11: the empty config blob '{}' is in the files of both image manifest
\* uploads and is referenced by both manifests; the registry never holds
\* more than one blob under a digest, and the step that completes the
\* config blob of an upload when the registry already has it changes
\* nothing in the registry and raises no error.
C11_IdempotentConfigBlob ==
  /\ [](/\ \A b \in registry.blobs : Cardinality(BlobsOf(b.digest)) = 1
        /\ \A b \in BlobsOf(emptyConfigSha) : b.content = EmptyConfigBytes
        /\ (upload.active /\ upload.op = "image") =>
             /\ emptyConfigSha \in ReferencedBlobs(upload.manifest)
             /\ emptyConfigSha \in DOMAIN upload.files
             /\ upload.files[emptyConfigSha] = EmptyConfigBytes)
  /\ [][(/\ upload.active /\ emptyConfigSha \in upload.pending
         /\ BlobsOf(emptyConfigSha) # {}
         /\ upload'.active /\ emptyConfigSha \notin upload'.pending)
        => (registry' = registry /\ failed' = failed /\ pc' = pc)]_vars

C11_Witness ==
  /\ ~options.isEnterprise
  /\ upload.active /\ upload.stage = "subject"
  /\ emptyConfigSha \notin upload.pending
  /\ PushesOf("attestation") # {}
  /\ Cardinality(BlobsOf(emptyConfigSha)) = 1

\* C13: once the attestation branch has succeeded, the bundle blob, the
\* attestation manifest and the referrer index under its sha256-<hex> tag
\* are in the registry and both attestation outputs are set, also when the
\* subject stage has failed and 'package-manifest-sha' is unset; no step
\* removes a blob or a manifest from the registry or changes an output
\* that is set.
C13_NoRollback ==
  /\ [](referrerIndexSHA # Unset =>
          /\ \E b \in registry.blobs : b.digest = bundleDigest /\ b.content = bundle
          /\ \E e \in PushesOf("attestation") : e.manifest = attestationManifest
          /\ \E e \in PushesOf("index") :
               e.manifest = referrerIndexManifest /\ e.tag = DashTag(manifestDigest)
          /\ outputs["attestation-manifest-sha"] = attestationSHA
          /\ outputs["referrer-index-manifest-sha"] = referrerIndexSHA
          /\ (pc = "done" /\ publishedDigest # manifestDigest) =>
               outputs["package-manifest-sha"] = Unset)
  /\ [][/\ registry.blobs \subseteq registry'.blobs
        /\ Len(registry.manifests) <= Len(registry'.manifests)
        /\ SubSeq(registry'.manifests, 1, Len(registry.manifests)) = registry.manifests
        /\ \A n \in OutputNames : outputs[n] # Unset => outputs'[n] = outputs[n]]_vars

C13_Witness ==
  /\ pc = "done"
  /\ referrerIndexSHA # Unset
  /\ publishedDigest # manifestDigest
  /\ outputs["attestation-manifest-sha"] # Unset
  /\ outputs["package-manifest-sha"] = Unset
  /\ PushesOf("index") # {}

\* A ref that is no tag ref, or whose tag, one leading v removed, is no
\* semantic version.
InvalidRef(ref) ==
  \/ ~StartsWith(ref, RefsTagsPrefix)
  \/ ~IsSemver(StripLeadingV(StripRefsTags(ref)))

\* C14: a run whose ref is invalid goes no further than parsing it: no
\* collaborator is called (checkout, archives, signing, uploads), the
\* registry is untouched, no output is set, and the run ends with setFailed
\* called.
C14_InvalidRefFailsFirst ==
  (options.ref # Unset /\ InvalidRef(options.ref)) =>
    /\ pc \in {"parse", "done"}
    /\ calls = << >>
    /\ ~upload.active
    /\ registry = [blobs |-> {}, manifests |-> << >>]
    /\ archives = [tarFile |-> NoFile, zipFile |-> NoFile]
    /\ \A n \in OutputNames : outputs[n] = Unset
    /\ pc = "done" =>
         /\ failed.called
         /\ failed.message.text \in {"is not a valid tag reference",
                                     "is not a valid semantic version tag"}

C14_Witness ==
  /\ pc = "done"
  /\ options.ref = RefsTagsPrefix \o <<"v","1",".","2">>
  /\ failed.called

\* C15: one digest of the subject manifest is used throughout a run: the
\* signing collaborator gets it without its sha256: prefix, the attestation
\* manifest records it as subject, the referrer tag is derived from it, it
\* is the expected digest of the comparison, and the manifest uploaded at
\* the subject stage is the manifest it was computed from.
C15_OneSubjectDigest ==
  /\ manifestDigest # Unset => manifestDigest = sha256Digest(manifest)
  /\ \A i \in 1..Len(calls) :
       /\ calls[i].op = "attestProvenance" =>
            /\ Sha256Prefix \o calls[i].subject = manifestDigest
            /\ \A k \in 1..Len(calls[i].subject) : calls[i].subject[k] # ":"
       /\ calls[i].op = "uploadOCIIndexManifest" =>
            /\ calls[i].subject = manifestDigest
            /\ calls[i].tag = DashTag(manifestDigest)
  /\ attestationManifest.kind # "none" =>
       /\ attestationManifest.subject = manifestDigest
       /\ attestationManifest.subjectSize = sizeInBytes(manifest)
  /\ upload.stage = "subject" => upload.manifest = manifest
  /\ \A e \in PushesOf("subject") :
       e.manifest = manifest /\ sha256Digest(e.manifest) = manifestDigest
  /\ failed.message.expected # Unset => failed.message.expected = manifestDigest

C15_Witness ==
  /\ Called("attestProvenance")
  /\ Called("uploadOCIIndexManifest")
  /\ PushesOf("subject") # {}
  /\ failed.message.expected # Unset

\* C16: every referrer index pushed lists one entry, the digest and size
\* of the attestation manifest pushed in the run, and that manifest has one
\* layer, the digest and length of the bundle, which the registry holds
\* under that digest.
C16_IndexPointsAtAttestation ==
  /\ \A e \in PushesOf("index") :
       /\ Len(e.manifest.manifests) = 1
       /\ \E a \in PushesOf("attestation") :
            /\ e.manifest.manifests[1].digest = sha256Digest(a.manifest)
            /\ e.manifest.manifests[1].size = sizeInBytes(a.manifest)
  /\ \A a \in PushesOf("attestation") :
       /\ Len(a.manifest.layers) = 1
       /\ a.manifest.layers[1].size = Len(bundle)
       /\ \E b \in registry.blobs :
            /\ b.digest = a.manifest.layers[1].digest
            /\ b.content = bundle
            /\ Sha256OfBytes(b.content) = b.digest
  /\ (upload.active /\ upload.stage = "attestation") =>
       /\ bundleDigest \in DOMAIN upload.files
       /\ upload.files[bundleDigest] = bundle

C16_Witness ==
  /\ PushesOf("index") # {}
  /\ \E a \in PushesOf("attestation") : a.manifest.layers[1].size = 2

\* C17: a subject manifest push is the last push of its run, made under
\* the version tag with no blob pending and nothing uploaded after it; a
\* Published run off an enterprise server has pushed the attestation
\* manifest, then the referrer index under its sha256-<hex> tag, then the
\* subject manifest, with the bundle blob in the registry.
C17_SubjectPushedLast ==
  /\ \A i \in 1..Len(registry.manifests) :
       registry.manifests[i].stage = "subject" =>
         /\ i = Len(registry.manifests)
         /\ registry.manifests[i].tag = semverTag
         /\ pc \in {"subjectUpload", "done"}
         /\ upload.active => (upload.returned /\ upload.stage = "subject")
  /\ (Published /\ ~options.isEnterprise) =>
       /\ Len(registry.manifests) = 3
       /\ registry.manifests[1].stage = "attestation"
       /\ registry.manifests[1].manifest = attestationManifest
       /\ registry.manifests[2].stage = "index"
       /\ registry.manifests[2].tag = DashTag(manifestDigest)
       /\ registry.manifests[3].stage = "subject"
       /\ BlobsOf(bundleDigest) # {}

C17_Witness ==
  /\ Published
  /\ ~options.isEnterprise
  /\ pc = "done"
  /\ Len(registry.manifests) = 3

\* The collaborator calls that take the token.
TokenOps == {"attestProvenance", "uploadOCIImageManifest", "uploadOCIIndexManifest"}

\* C18: every call that takes a token gets the token of the options, those
\* are not changed once resolved, and the upload in flight holds the same
\* token.
C18_OneToken ==
  /\ [](/\ \A i \in 1..Len(calls) :
             calls[i].op \in TokenOps =>
               (calls[i].token = options.token /\ calls[i].token \in Tokens)
        /\ upload.active => upload.token = options.token)
  /\ [][pc # "resolve" => options' = options]_vars

C18_Witness ==
  /\ Called("attestProvenance")
  /\ Called("uploadOCIIndexManifest")
  /\ upload.active /\ upload.stage = "subject"
  /\ upload.token = "ghs_token"

\* C12 (as claimed): a run started again with the same inputs after a run
\* that failed at the subject stage computes the digests and the referrer
\* tag the first run computed.
C12_RetrySameDigests ==
  previous.run = 2 =>
    /\ manifestDigest # Unset => manifestDigest = previous.subject
    /\ attestationManifest.kind # "none" =>
         sha256Digest(attestationManifest) = previous.attestation
    /\ referrerIndexManifest.kind # "none" =>
         sha256Digest(referrerIndexManifest) = previous.index
    /\ \A i \in 1..Len(calls) :
         calls[i].op = "uploadOCIIndexManifest" => calls[i].tag = previous.tag

====
